---- MODULE Spec2Model ----
(***************************************************************************)
(* Model of the `date` utility: the formatting engine (Parser::ParseFormat,*)
(* Parser::formatTwoDigits, the weekday and month name tables), the        *)
(* date-spec decoder (Parser::ParseDate), class Clock and main.            *)
(*   Spec       a call of ParseFormat, one action per branch of its loop   *)
(*   SpecDate   a call of ParseDate, one action per stage                  *)
(*   SpecMain   a run of main                                              *)
(*   SpecClock  Clock objects constructed in one process                   *)
(*                                                                         *)
(* A std::string is a sequence of one-character strings.  Indices keep the *)
(* source's 0-based convention: at(s, n) is s.at(n).                       *)
(***************************************************************************)
EXTENDS Integers, Sequences, FiniteSets, TLC

VARIABLES
    argument,       \* the std::string parameter of the running call
    clock,          \* what the accessors of the ClockInterface return
    i,              \* ParseFormat: loop index
    formattedDate,  \* ParseFormat and main: the output being built
    tempDate,       \* ParseFormat: temporary string
    pc,             \* where the running function is
    fieldStr,       \* ParseDate: monthStr, dayStr, hourStr, minuteStr, yearStr, secondStr
    fieldInt,       \* ParseDate: month, day, hour, minute, year, second
    localtime,      \* ParseDate: tm localtime
    convertedTime,  \* ParseDate: the timespec returned, or nullptr
    arguments,      \* main: the vector of command-line arguments
    isUtc,          \* main: -u was given
    argi,           \* main: index of the argument the range-for is at
    exitStatus,     \* how the process ended
    cout,           \* what was written to standard output
    cerr,           \* what was written to standard error
    zone,           \* the process's time zone (TZ)
    rtc,            \* the system's real-time clock, seconds since the epoch
    privileged,     \* the process may set the real-time clock
    settime,        \* the clock_settime calls made, in order
    tmbuf,          \* the static struct tm objects of gmtime and localtime
    clocks          \* the Clock objects constructed, in order

vars ==
    <<argument, clock, i, formattedDate, tempDate, pc, fieldStr, fieldInt, localtime,
      convertedTime, arguments, isUtc, argi, exitStatus, cout, cerr, zone, rtc,
      privileged, settime, tmbuf, clocks>>

(***************************************************************************)
(* Standard-library primitives used by the code.                           *)
(***************************************************************************)

\* A value returned normally, or a std::out_of_range thrown instead.
Returned(v) == [threw |-> FALSE, value |-> v]

Thrown == [threw |-> TRUE, value |-> <<>>]

\* std::array::at / std::string::at: range-checked, 0-based.
at(arr, n) == IF n >= 0 /\ n < Len(arr) THEN Returned(arr[n + 1]) ELSE Thrown

\* size_t subtraction a - b: a negative difference wraps around.  The
\* modulus 2^64 is beyond the model checker's integers; the wrapped value
\* is only ever compared with a string's size, which it exceeds.
size_sub(a, b) == IF a >= b THEN a - b ELSE (a - b) + 2147483647

\* std::string::substr(pos): throws std::out_of_range when pos > size().
substr(s, pos) == IF pos > Len(s) THEN Thrown ELSE Returned(SubSeq(s, pos + 1, Len(s)))

\* One decimal digit as a character.
digit(d) == <<"0", "1", "2", "3", "4", "5", "6", "7", "8", "9">>[d + 1]

RECURSIVE digits(_)
\* The decimal digits of a natural number, most significant first.
digits(n) == IF n < 10 THEN <<digit(n)>> ELSE Append(digits(n \div 10), digit(n % 10))

\* std::to_string(int).
to_string(n) == IF n < 0 THEN <<"-">> \o digits(0 - n) ELSE digits(n)

RECURSIVE fill(_, _)
\* n copies of the fill character c.
fill(c, n) == IF n <= 0 THEN <<>> ELSE <<c>> \o fill(c, n - 1)

(***************************************************************************)
(* day.hpp and month.hpp: the name tables.                                 *)
(***************************************************************************)

shortDayNames ==
    << <<"S", "u", "n">>, <<"M", "o", "n">>, <<"T", "u", "e">>, <<"W", "e", "d">>,
       <<"T", "h", "u">>, <<"F", "r", "i">>, <<"S", "a", "t">> >>

longDayNames ==
    << <<"S", "u", "n", "d", "a", "y">>, <<"M", "o", "n", "d", "a", "y">>,
       <<"T", "u", "e", "s", "d", "a", "y">>,
       <<"W", "e", "d", "n", "e", "s", "d", "a", "y">>,
       <<"T", "h", "u", "r", "s", "d", "a", "y">>, <<"F", "r", "i", "d", "a", "y">>,
       <<"S", "a", "t", "u", "r", "d", "a", "y">> >>

shortMonthNames ==
    << <<"J", "a", "n">>, <<"F", "e", "b">>, <<"M", "a", "r">>, <<"A", "p", "r">>,
       <<"M", "a", "y">>, <<"J", "u", "n">>, <<"J", "u", "l">>, <<"A", "u", "g">>,
       <<"S", "e", "p">>, <<"O", "c", "t">>, <<"N", "o", "v">>, <<"D", "e", "c">> >>

longMonthNames ==
    << <<"J", "a", "n", "u", "a", "r", "y">>, <<"F", "e", "b", "r", "u", "a", "r", "y">>,
       <<"M", "a", "r", "c", "h">>, <<"A", "p", "r", "i", "l">>, <<"M", "a", "y">>,
       <<"J", "u", "n", "e">>, <<"J", "u", "l", "y">>, <<"A", "u", "g", "u", "s", "t">>,
       <<"S", "e", "p", "t", "e", "m", "b", "e", "r">>,
       <<"O", "c", "t", "o", "b", "e", "r">>, <<"N", "o", "v", "e", "m", "b", "e", "r">>,
       <<"D", "e", "c", "e", "m", "b", "e", "r">> >>

\* Faulty variant: the table starts on Monday, as the comment on the
\* function ("0 = Monday, 6 = Sunday") has it.
getShortDayName_mondayfirst(day) ==
    at(SubSeq(shortDayNames, 2, 7) \o SubSeq(shortDayNames, 1, 1), day)

getShortDayName(day) == at(shortDayNames, day)

getLongDayName(day) == at(longDayNames, day)

getShortMonthName(month) == at(shortMonthNames, month)

getLongMonthName(month) == at(longMonthNames, month)

(***************************************************************************)
(* Parser::formatTwoDigits: oss << setw(2) << setfill('0') << value.       *)
(* The number is right-adjusted in a field of width 2; a text of two or    *)
(* more characters is written as it is.                                    *)
(***************************************************************************)
\* Faulty variant: the field is filled with the stream's default fill character.
formatTwoDigits_spacefill(value) ==
    LET s == to_string(value) IN fill(" ", 2 - Len(s)) \o s

formatTwoDigits(value) ==
    LET s == to_string(value) IN fill("0", 2 - Len(s)) \o s

(***************************************************************************)
(* Parser::ParseFormat.  The locals of one call are the record             *)
(*   [i, formattedDate, tempDate, threw]                                   *)
(* and each case of the switch maps the locals before the case to the      *)
(* locals after it (the for statement's own i++ comes after, in for_step). *)
(* clk is the ClockInterface: a record of what its accessors return.       *)
(***************************************************************************)

\* formattedDate += s
append(st, s) == [st EXCEPT !.formattedDate = @ \o s]

\* i++ inside a case
skip(st) == [st EXCEPT !.i = @ + 1]

\* an exception leaves the function
throw(st) == [st EXCEPT !.threw = TRUE]

\* formattedDate += <a name table lookup>; i++
append_name(st, r) == IF r.threw THEN throw(st) ELSE skip(append(st, r.value))

case_a(clk, st) == append_name(st, getShortDayName(clk.wday))

case_A(clk, st) == append_name(st, getLongDayName(clk.wday))

case_b(clk, st) == append_name(st, getShortMonthName(clk.month))

case_B(clk, st) == append_name(st, getLongMonthName(clk.month))

case_d(clk, st) == skip(append(st, formatTwoDigits(clk.day)))

case_e(clk, st) == skip(append(st, to_string(clk.day)))

case_H(clk, st) == skip(append(st, formatTwoDigits(clk.hour)))

\* TODO in the source: the case is an empty break, without i++.
case_I(clk, st) == st

case_j(clk, st) == st

case_m(clk, st) == skip(append(st, formatTwoDigits(clk.month)))

case_M(clk, st) == skip(append(st, formatTwoDigits(clk.min)))

case_p(clk, st) == st

case_R(clk, st) ==
    skip(append(append(append(st, formatTwoDigits(clk.hour)), <<":">>),
                formatTwoDigits(clk.min)))

\* case 'r' holds a TODO and no break: control falls through into case 'R'.
case_r(clk, st) == case_R(clk, st)

case_S(clk, st) == skip(append(st, formatTwoDigits(clk.sec)))

\* Faulty variant: %T stops after the minutes.
case_T_nosec(clk, st) == case_R(clk, st)

case_T(clk, st) ==
    skip(append(append(append(append(append(st,
        formatTwoDigits(clk.hour)), <<":">>),
        formatTwoDigits(clk.min)), <<":">>),
        formatTwoDigits(clk.sec)))

case_u(clk, st) == st

case_w(clk, st) == st

\* Faulty variant: %y renders the year modulo 10.
case_y_onedigit(clk, st) == skip(append(st, to_string(clk.year % 10)))

\* tempDate = to_string(year); formattedDate += tempDate.substr(size - 2)
case_y(clk, st) ==
    LET t == to_string(clk.year)
        st1 == [st EXCEPT !.tempDate = t]
        r == substr(t, size_sub(Len(t), 2))
    IN  IF r.threw THEN throw(st1) ELSE skip(append(st1, r.value))

case_Y(clk, st) == skip(append(st, to_string(clk.year)))

case_z(clk, st) == st

case_Z(clk, st) == skip(append(st, clk.tz))

\* Faulty variant: "%%" writes the '%' and leaves the second '%' to the next iteration.
case_percent_noskip(st) == append(st, <<"%">>)

case_percent(st) == skip(append(st, <<"%">>))

\* default: formattedDate += argument.at(i), which is the '%'; no i++.
case_default(arg, st) == append(st, <<at(arg, st.i).value>>)

\* The characters the switch has a case label for.
DirectiveChars ==
    {"a", "A", "b", "B", "d", "e", "H", "I", "j", "m", "M", "p", "r", "R",
     "S", "T", "u", "w", "y", "Y", "z", "Z", "%"}

\* switch (argument.at(i + 1))
switch(arg, clk, st) ==
    LET c == at(arg, st.i + 1).value IN
    CASE c = "a" -> case_a(clk, st)
      [] c = "A" -> case_A(clk, st)
      [] c = "b" -> case_b(clk, st)
      [] c = "B" -> case_B(clk, st)
      [] c = "d" -> case_d(clk, st)
      [] c = "e" -> case_e(clk, st)
      [] c = "H" -> case_H(clk, st)
      [] c = "I" -> case_I(clk, st)
      [] c = "j" -> case_j(clk, st)
      [] c = "m" -> case_m(clk, st)
      [] c = "M" -> case_M(clk, st)
      [] c = "p" -> case_p(clk, st)
      [] c = "r" -> case_r(clk, st)
      [] c = "R" -> case_R(clk, st)
      [] c = "S" -> case_S(clk, st)
      [] c = "T" -> case_T(clk, st)
      [] c = "u" -> case_u(clk, st)
      [] c = "w" -> case_w(clk, st)
      [] c = "y" -> case_y(clk, st)
      [] c = "Y" -> case_Y(clk, st)
      [] c = "z" -> case_z(clk, st)
      [] c = "Z" -> case_Z(clk, st)
      [] c = "%" -> case_percent(st)
      [] OTHER -> case_default(arg, st)

\* Faulty variant: the loop looks at argument.at(i + 1) without the bound test.
is_directive_unchecked(arg, n) == at(arg, n).value = "%"

\* argument.at(i) == '%' && i + 1 < argument.size()
is_directive(arg, n) == at(arg, n).value = "%" /\ n + 1 < Len(arg)

\* Faulty variant: only a leading '+' is elided.
copy_char_leading(arg, st) ==
    IF at(arg, st.i).value # "+" \/ st.i > 0
    THEN append(st, <<at(arg, st.i).value>>)
    ELSE st

\* else if (argument.at(i) != '+') formattedDate += argument.at(i);
copy_char(arg, st) ==
    IF at(arg, st.i).value # "+" THEN append(st, <<at(arg, st.i).value>>) ELSE st

\* The body of the for loop, for the locals st with st.i < argument.size().
loop_body(arg, clk, st) ==
    IF is_directive(arg, st.i)
    THEN IF at(arg, st.i + 1).threw THEN throw(st) ELSE switch(arg, clk, st)
    ELSE copy_char(arg, st)

\* One iteration and the for statement's i++.
for_step(arg, clk, st) ==
    LET st1 == loop_body(arg, clk, st) IN IF st1.threw THEN st1 ELSE skip(st1)

\* formattedDate += '\n'
finish(fd) == fd \o <<"\n">>

RECURSIVE run(_, _, _)
\* The loop from the locals st to the return statement.
run(arg, clk, st) ==
    IF st.threw THEN Thrown
    ELSE IF st.i < Len(arg) THEN run(arg, clk, for_step(arg, clk, st))
    ELSE Returned(finish(st.formattedDate))

\* Parser::ParseFormat as a function of its two parameters.
ParseFormat(arg, clk) ==
    run(arg, clk, [i |-> 0, formattedDate |-> <<>>, tempDate |-> <<>>, threw |-> FALSE])

(***************************************************************************)
(* The inputs of a call: templates and time sources.                       *)
(***************************************************************************)

\* Longest template of the exhaustive family.
MaxLen == 4

\* Characters of the exhaustive family: the directive introducer, the
\* format marker, a character with no case label, an implemented, an
\* unimplemented, the fall-through and the short-year directive character.
Alphabet == {"%", "+", "x", "a", "I", "r", "y"}

\* Every template over Alphabet of length 0..MaxLen.
BoundedTemplates == UNION {[1..n -> Alphabet] : n \in 0..MaxLen}

\* Characters the switch has no case label for.
UnknownChars == {"x", "+", " ", ":", "q", "0", "E", "\n"}

\* A directive at the start, after the format marker, after a literal,
\* alone or followed by a literal.
DirectiveTemplates ==
    {pre \o <<"%", c>> \o post :
        pre \in {<<>>, <<"+">>, <<"x">>},
        c \in DirectiveChars \cup UnknownChars,
        post \in {<<>>, <<"x">>}}

\* A MockClock on which no ON_CALL was set: gmock returns 0 and "".
MockClock ==
    [year |-> 0, month |-> 0, day |-> 0, hour |-> 0, min |-> 0, sec |-> 0,
     wday |-> 0, tz |-> <<>>]

\* The templates and clocks of the unit tests (ParserFormatTests).
T_DoublePercent == <<"+", "%", "%", "a">>

T_ShortNumericDate == <<"+", "%", "d", "/", "%", "m", "/", "%", "y">>

C_ShortNumericDate == [MockClock EXCEPT !.day = 2, !.month = 2, !.year = 99]

T_LongTime == <<"+", "%", "T">>

C_LongTime == [MockClock EXCEPT !.hour = 14, !.min = 15, !.sec = 16]

T_ShortTime == <<"+", "%", "R">>

T_FullFormat ==
    <<"+", "%", "a", " ", "%", "b", " ", "%", "e", " ", "%", "H", ":", "%", "M", ":",
      "%", "S", " ", "%", "Z", " ", "%", "Y">>

C_FullFormat ==
    [year |-> 1991, month |-> 11, day |-> 26, hour |-> 19, min |-> 45, sec |-> 0,
     wday |-> 4, tz |-> <<"M", "S", "K">>]

T_FullDay == <<"+", "%", "A">>

C_FullDay == [MockClock EXCEPT !.wday = 1]

T_FullMonth == <<"+", "%", "B">>

C_FullMonth == [MockClock EXCEPT !.month = 7]

T_MixedText ==
    <<"+", "N", "o", "w", ":", " ", "%", "H", "h", " ", "%", "M", "m", "i", "n", " ",
      "%", "S", "s", "e", "c">>

C_MixedText == [MockClock EXCEPT !.hour = 8, !.min = 5, !.sec = 30]

T_ZeroPaddedHour == <<"+", "%", "H">>

C_ZeroPaddedHour == [MockClock EXCEPT !.hour = 3]

T_StaticText ==
    <<"s", "t", "a", "t", "i", "c", " ", "t", "e", "x", "t", " ", "o", "n", "l", "y">>

T_TrailingPercent ==
    <<"E", "n", "d", "s", " ", "w", "i", "t", "h", " ", "p", "e", "r", "c", "e", "n",
      "t", "%">>

T_UnknownPlaceholder == <<"D", "a", "t", "e", ":", " ", "%", "x">>

TestInputs ==
    {<<T_DoublePercent, MockClock>>, <<T_ShortNumericDate, C_ShortNumericDate>>,
     <<T_LongTime, C_LongTime>>, <<T_ShortTime, C_LongTime>>,
     <<T_FullFormat, C_FullFormat>>, <<T_FullDay, C_FullDay>>,
     <<T_FullMonth, C_FullMonth>>, <<T_MixedText, C_MixedText>>,
     <<T_ZeroPaddedHour, C_ZeroPaddedHour>>, <<T_StaticText, MockClock>>,
     <<T_TrailingPercent, MockClock>>, <<T_UnknownPlaceholder, MockClock>>}

\* A Clock of the 2nd of January 2025 (UTC), a one-digit year, and a time
\* source that returns a weekday and a month outside the name tables.
C_Utc2025 ==
    [year |-> 2025, month |-> 0, day |-> 2, hour |-> 15, min |-> 30, sec |-> 45,
     wday |-> 4, tz |-> <<"U", "T", "C">>]

C_Year5 == [C_Utc2025 EXCEPT !.year = 5, !.wday = 6, !.month = 9]

C_OutOfRange == [C_FullFormat EXCEPT !.wday = 7, !.month = 12]

BaseClocks == {C_FullFormat, C_Utc2025, C_Year5, C_OutOfRange}

\* Time sources whose numeric fields run through 0..99, each field with a
\* different value.
NumericClock(n) ==
    [year |-> 1900 + n, month |-> (n + 17) % 100, day |-> n, hour |-> (n + 31) % 100,
     min |-> (n + 53) % 100, sec |-> (n + 71) % 100, wday |-> n % 7,
     tz |-> <<"C", "E", "T">>]

NumericClocks == {NumericClock(n) : n \in 0..99}

NumericTemplates ==
    {<<"%", c>> : c \in {"d", "e", "m", "H", "M", "S", "T", "R"}}
    \cup {<<"%", "H", ":", "%", "M", ":", "%", "S">>, <<"%", "H", ":", "%", "M">>}

\* Time sources of every four-digit year.
YearClocks == {[C_Utc2025 EXCEPT !.year = y] : y \in 1000..9999}

YearTemplates == {<<"%", "Y">>, <<"%", "y">>}

\* Time sources of every weekday and month, as Clock produces them.
CalendarClocks ==
    {[year |-> c[1], month |-> m, day |-> c[2], hour |-> c[3], min |-> c[4],
      sec |-> c[5], wday |-> w, tz |-> c[6]] :
        w \in 0..6, m \in 0..11,
        c \in {<<1991, 26, 19, 45, 0, <<"M", "S", "K">>>>,
               <<2025, 2, 3, 4, 60, <<"U", "T", "C">>>>,
               <<9999, 31, 23, 59, 59, <<"C", "E", "S", "T">>>>}}

Inputs ==
    (BoundedTemplates \X BaseClocks)
    \cup (DirectiveTemplates \X BaseClocks)
    \cup TestInputs
    \cup (NumericTemplates \X NumericClocks)
    \cup (YearTemplates \X YearClocks)
    \cup ({T_FullFormat} \X CalendarClocks)

(***************************************************************************)
(* Parser::ParseDate and the C library calls it makes.                     *)
(***************************************************************************)

\* std::string::substr(pos, n): at most n characters from pos; throws
\* std::out_of_range when pos > size().
substr_n(s, pos, n) ==
    IF pos > Len(s) THEN Thrown
    ELSE Returned(SubSeq(s, pos + 1, IF pos + n < Len(s) THEN pos + n ELSE Len(s)))

DecimalDigits == {"0", "1", "2", "3", "4", "5", "6", "7", "8", "9"}

RECURSIVE skip_space(_)
\* The text after its leading whitespace (the characters std::isspace
\* accepts, which strtol skips).
skip_space(s) ==
    IF s # <<>> /\ Head(s) \in {" ", "\t", "\n", "\r", "\f"} THEN skip_space(Tail(s))
    ELSE s

RECURSIVE leading_digits(_)
\* The longest prefix of decimal digits.
leading_digits(s) ==
    IF s # <<>> /\ Head(s) \in DecimalDigits
    THEN <<Head(s)>> \o leading_digits(Tail(s))
    ELSE <<>>

RECURSIVE decimal_value(_)
\* The number a text of decimal digits denotes.
decimal_value(d) ==
    IF d = <<>> THEN 0
    ELSE 10 * decimal_value(SubSeq(d, 1, Len(d) - 1))
         + (CHOOSE v \in 0..9 : digit(v) = d[Len(d)])

\* std::stoi(str), base 10: leading whitespace is skipped, a sign is
\* accepted, the longest run of digits is converted and what follows it is
\* ignored; with no digit there std::invalid_argument is thrown.  (The
\* texts converted here have at most four characters, within int's range.)
stoi(s) ==
    LET t == skip_space(s)
        signed == t # <<>> /\ Head(t) \in {"+", "-"}
        d == leading_digits(IF signed THEN Tail(t) ELSE t)
    IN  IF d = <<>> THEN Thrown
        ELSE Returned(IF signed /\ Head(t) = "-" THEN 0 - decimal_value(d)
                      ELSE decimal_value(d))

\* The broken-down time (struct tm) of the instant t seconds after the
\* epoch, in UTC.  A zone (TZ) is a record [offset, abbrev] without daylight
\* saving: localtime at t in the zone z is gmtime(t + z.offset).
gmtime(t) ==
    LET days == t \div 86400
        rem == t % 86400
        z == days + 719468
        era == z \div 146097
        doe == z - era * 146097
        yoe == (doe - doe \div 1460 + doe \div 36524 - doe \div 146096) \div 365
        doy == doe - (365 * yoe + yoe \div 4 - yoe \div 100)
        mp == (5 * doy + 2) \div 153
        d == doy - (153 * mp + 2) \div 5 + 1
        m == IF mp < 10 THEN mp + 3 ELSE mp - 9
        y == yoe + era * 400 + (IF m <= 2 THEN 1 ELSE 0)
    IN  [tm_sec |-> rem % 60, tm_min |-> (rem \div 60) % 60, tm_hour |-> rem \div 3600,
         tm_mday |-> d, tm_mon |-> m - 1, tm_year |-> y - 1900,
         tm_wday |-> (days + 4) % 7]

\* tm localtime = {}
zero_tm ==
    [tm_sec |-> 0, tm_min |-> 0, tm_hour |-> 0, tm_mday |-> 0, tm_mon |-> 0,
     tm_year |-> 0, tm_wday |-> 0]

\* mktime(&tm) in the zone z: the instant of the fields of tm taken as
\* local time, fields outside their ranges carried over (tm_mon is 0..11
\* here).  The instants of the model lie within 1902..2037.
mktime(tm, z) ==
    LET m == tm.tm_mon + 1
        yy == IF m <= 2 THEN tm.tm_year + 1900 - 1 ELSE tm.tm_year + 1900
        era == yy \div 400
        yoe == yy - era * 400
        doy == (153 * (IF m > 2 THEN m - 3 ELSE m + 9) + 2) \div 5
        doe == yoe * 365 + yoe \div 4 - yoe \div 100 + doy
        days_from_civil == era * 146097 + doe - 719468
    IN  (days_from_civil + tm.tm_mday - 1) * 86400
        + tm.tm_hour * 3600 + tm.tm_min * 60 + tm.tm_sec - z.offset

(***************************************************************************)
(* The variables of the other parts of the program, at rest while a call   *)
(* of ParseFormat alone is followed.                                       *)
(***************************************************************************)

dateVars == <<fieldStr, fieldInt, localtime, convertedTime>>

mainVars == <<arguments, isUtc, argi, exitStatus, cout, cerr>>

sysVars == <<zone, rtc, privileged, settime, tmbuf, clocks>>

\* The string and int locals of ParseDate as they are declared.
NoStrings ==
    [monthStr |-> <<>>, dayStr |-> <<>>, hourStr |-> <<>>, minuteStr |-> <<>>,
     yearStr |-> <<>>, secondStr |-> <<>>]

NoInts == [month |-> 0, day |-> 0, hour |-> 0, minute |-> 0, year |-> 0, second |-> 0]

\* nullptr
Null == [null |-> TRUE]

UTC0 == [offset |-> 0, abbrev |-> <<"U", "T", "C">>]

DateAtRest ==
    /\ fieldStr = NoStrings /\ fieldInt = NoInts /\ localtime = zero_tm
    /\ convertedTime = Null

MainAtRest ==
    /\ arguments = <<>> /\ isUtc = FALSE /\ argi = 0 /\ exitStatus = "running"
    /\ cout = <<>> /\ cerr = <<>>

(***************************************************************************)
(* The state machine: a call of ParseFormat(argument, clock), one action   *)
(* per branch taken by an iteration of its loop.                           *)
(*   pc = "loop"      the loop test is about to be evaluated               *)
(*   pc = "returned"  the function returned formattedDate                  *)
(*   pc = "threw"     an exception left the function                       *)
(***************************************************************************)

Init ==
    /\ \E in \in Inputs : argument = in[1] /\ clock = in[2]
    /\ i = 0
    /\ formattedDate = <<>>
    /\ tempDate = <<>>
    /\ pc = "loop"
    /\ DateAtRest /\ MainAtRest
    /\ zone = UTC0 /\ rtc = 0 /\ privileged = FALSE /\ settime = <<>>
    /\ tmbuf = [gm |-> zero_tm, local |-> zero_tm, shared |-> TRUE]
    /\ clocks = <<>>

\* The locals of the running call.
Locals ==
    [i |-> i, formattedDate |-> formattedDate, tempDate |-> tempDate, threw |-> FALSE]

\* One iteration of the loop, with the for statement's i++.
Iterate ==
    LET st == for_step(argument, clock, Locals) IN
    /\ i' = st.i
    /\ formattedDate' = st.formattedDate
    /\ tempDate' = st.tempDate
    /\ pc' = IF st.threw THEN "threw" ELSE "loop"
    /\ UNCHANGED <<argument, clock, dateVars, mainVars, sysVars>>

\* i < argument.size()
InLoop == pc = "loop" /\ i < Len(argument)

\* The iteration enters the switch on the character c.
InSwitch(c) == InLoop /\ is_directive(argument, i) /\ at(argument, i + 1).value = c

Directive_a == InSwitch("a") /\ Iterate

Directive_A == InSwitch("A") /\ Iterate

Directive_b == InSwitch("b") /\ Iterate

Directive_B == InSwitch("B") /\ Iterate

Directive_d == InSwitch("d") /\ Iterate

Directive_e == InSwitch("e") /\ Iterate

Directive_H == InSwitch("H") /\ Iterate

Directive_I == InSwitch("I") /\ Iterate

Directive_j == InSwitch("j") /\ Iterate

Directive_m == InSwitch("m") /\ Iterate

Directive_M == InSwitch("M") /\ Iterate

Directive_p == InSwitch("p") /\ Iterate

Directive_r == InSwitch("r") /\ Iterate

Directive_R == InSwitch("R") /\ Iterate

Directive_S == InSwitch("S") /\ Iterate

Directive_T == InSwitch("T") /\ Iterate

Directive_u == InSwitch("u") /\ Iterate

Directive_w == InSwitch("w") /\ Iterate

Directive_y == InSwitch("y") /\ Iterate

Directive_Y == InSwitch("Y") /\ Iterate

Directive_z == InSwitch("z") /\ Iterate

Directive_Z == InSwitch("Z") /\ Iterate

Directive_percent == InSwitch("%") /\ Iterate

\* The default label of the switch.
Directive_default ==
    /\ InLoop
    /\ is_directive(argument, i)
    /\ at(argument, i + 1).value \notin DirectiveChars
    /\ Iterate

\* The else branch, for a character other than '+'.
CopyChar ==
    /\ InLoop
    /\ ~is_directive(argument, i)
    /\ at(argument, i).value # "+"
    /\ Iterate

\* The else branch, for '+': nothing is written.
ElidePlus ==
    /\ InLoop
    /\ ~is_directive(argument, i)
    /\ at(argument, i).value = "+"
    /\ Iterate

\* The loop ends: the line terminator is added and the text returned.
Return ==
    /\ pc = "loop"
    /\ ~(i < Len(argument))
    /\ formattedDate' = finish(formattedDate)
    /\ pc' = "returned"
    /\ UNCHANGED <<argument, clock, i, tempDate, dateVars, mainVars, sysVars>>

Next ==
    \/ Directive_a \/ Directive_A \/ Directive_b \/ Directive_B \/ Directive_d
    \/ Directive_e \/ Directive_H \/ Directive_I \/ Directive_j \/ Directive_m
    \/ Directive_M \/ Directive_p \/ Directive_r \/ Directive_R \/ Directive_S
    \/ Directive_T \/ Directive_u \/ Directive_w \/ Directive_y \/ Directive_Y
    \/ Directive_z \/ Directive_Z \/ Directive_percent \/ Directive_default
    \/ CopyChar \/ ElidePlus \/ Return

Spec == Init /\ [][Next]_vars

\* The call ends the way the function computes it.
ReturnsParseFormat ==
    /\ pc = "returned" => ParseFormat(argument, clock) = Returned(formattedDate)
    /\ pc = "threw" => ParseFormat(argument, clock) = Thrown

(***************************************************************************)
(* Parser::ParseDate(argument): the constants it declares, its stages as   *)
(* operators and the whole function.                                       *)
(***************************************************************************)

MAX_MONTH == 12

MAX_DAY == 31

MAX_HOUR == 24

MAX_MIN == 60

MAX_SEC == 60

BASE_YEAR == 1900

BASE_LENGTH == 7

MAX_LENGTH == 14

MONTH_POS == 0

DAY_POS == 2

HOUR_POS == 4

MIN_POS == 6

YEAR_POS == 8

POINT_POS == 12

SECOND_POS == 13

\* cout << "Invalid argument\n"
InvalidArgumentText ==
    <<"I", "n", "v", "a", "l", "i", "d", " ", "a", "r", "g", "u", "m", "e", "n", "t", "\n">>

\* Faulty variant: the length test lets a spec without a minute field through.
too_short_by_two(arg) == Len(arg) < BASE_LENGTH - 2

\* argument.size() < BASE_LENGTH
too_short(arg) == Len(arg) < BASE_LENGTH

\* The six substr calls, for an argument that is not too short (no pos
\* exceeds the size then): the year is sliced if size() > BASE_LENGTH, the
\* seconds if size() > MAX_LENGTH && at(POINT_POS) == '.'.
slice_fields(arg) ==
    [monthStr |-> substr_n(arg, MONTH_POS, 2).value,
     dayStr |-> substr_n(arg, DAY_POS, 2).value,
     hourStr |-> substr_n(arg, HOUR_POS, 2).value,
     minuteStr |-> substr_n(arg, MIN_POS, 2).value,
     yearStr |-> IF Len(arg) > BASE_LENGTH THEN substr_n(arg, YEAR_POS, 4).value ELSE <<>>,
     secondStr |->
        IF Len(arg) > MAX_LENGTH /\ at(arg, POINT_POS).value = "."
        THEN substr_n(arg, SECOND_POS, 2).value
        ELSE <<>>]

\* The six stoi calls in their order: the first that throws ends the
\* function, otherwise the six ints.
convert_fields(fs) ==
    LET month == stoi(fs.monthStr)
        day == stoi(fs.dayStr)
        hour == stoi(fs.hourStr)
        minute == stoi(fs.minuteStr)
        year == stoi(fs.yearStr)
        second == stoi(fs.secondStr)
    IN  IF month.threw \/ day.threw \/ hour.threw \/ minute.threw \/ year.threw
           \/ second.threw
        THEN Thrown
        ELSE Returned([month |-> month.value, day |-> day.value, hour |-> hour.value,
                       minute |-> minute.value, year |-> year.value,
                       second |-> second.value])

\* Faulty variant: a field of 0 is applied too.
in_range_from_zero(v, max) == v >= 0 /\ v <= max

\* v > 0 && v <= max
in_range(v, max) == v > 0 /\ v <= max

\* Faulty variant: the month is stored 1-based.
apply_fields_month1(f) ==
    [zero_tm EXCEPT
        !.tm_mon = IF in_range(f.month, MAX_MONTH) THEN f.month ELSE @,
        !.tm_mday = IF in_range(f.day, MAX_DAY) THEN f.day ELSE @,
        !.tm_hour = IF in_range(f.hour, MAX_HOUR) THEN f.hour ELSE @,
        !.tm_min = IF in_range(f.minute, MAX_MIN) THEN f.minute ELSE @,
        !.tm_sec = IF in_range(f.second, MAX_SEC) THEN f.second ELSE @,
        !.tm_year = f.year - BASE_YEAR]

\* The five range tests on the zero-initialised tm, and tm_year.
apply_fields(f) ==
    [zero_tm EXCEPT
        !.tm_mon = IF in_range(f.month, MAX_MONTH) THEN f.month - 1 ELSE @,
        !.tm_mday = IF in_range(f.day, MAX_DAY) THEN f.day ELSE @,
        !.tm_hour = IF in_range(f.hour, MAX_HOUR) THEN f.hour ELSE @,
        !.tm_min = IF in_range(f.minute, MAX_MIN) THEN f.minute ELSE @,
        !.tm_sec = IF in_range(f.second, MAX_SEC) THEN f.second ELSE @,
        !.tm_year = f.year - BASE_YEAR]

\* Parser::ParseDate in the zone z: how the call ends ("null": nullptr
\* returned, "threw": an exception of stoi leaves it, "value": a timespec
\* returned), the timespec and what was written to cout.
ParseDate(arg, z) ==
    IF too_short(arg)
    THEN [outcome |-> "null", value |-> Null, cout |-> InvalidArgumentText]
    ELSE LET c == convert_fields(slice_fields(arg)) IN
         IF c.threw
         THEN [outcome |-> "threw", value |-> Null, cout |-> <<>>]
         ELSE [outcome |-> "value", value |-> [tv_sec |-> mktime(apply_fields(c.value), z), tv_nsec |-> 0],
               cout |-> <<>>]

(***************************************************************************)
(* The state machine of a call of ParseDate(argument).                     *)
(*   pc = "check"             the length test is about to be evaluated     *)
(*   pc = "slice"             the substr calls are next                    *)
(*   pc = "stoi_month" ...    the stoi call of that field is next          *)
(*   pc = "apply"             the range tests are next                     *)
(*   pc = "mktime"            mktime and the return are next               *)
(*   pc = "returned"          a timespec was returned                      *)
(*   pc = "null"              nullptr was returned                         *)
(*   pc = "threw"             an exception left the function               *)
(***************************************************************************)

\* The zones (TZ) followed, records [offset, abbrev]: UTC and one hour
\* east of it.
Zones == {UTC0, [offset |-> 3600, abbrev |-> <<"C", "E", "T">>]}

\* The specs decoded: specs too short (of every length 0..6), specs of
\* seven characters (the minute field cut to one character), and month,
\* day, hour and minute texts (zero, in range, the maximum, above it, with
\* a character that is no digit) followed by nothing, a year (whole or cut
\* short), a year and seconds with and without the '.', or a longer text.
DateSpecs ==
    LET MonthTexts ==
            {<<"0", "0">>, <<"0", "1">>, <<"1", "2">>, <<"1", "3">>, <<"a", "1">>,
             <<"1", "a">>}
        DayTexts == {<<"0", "0">>, <<"0", "2">>, <<"3", "1">>, <<"3", "2">>, <<"0", "x">>}
        HourTexts == {<<"0", "0">>, <<"1", "5">>, <<"2", "4">>, <<"2", "5">>, <<"x", "5">>}
        MinuteTexts ==
            {<<"0", "0">>, <<"3", "0">>, <<"6", "0">>, <<"6", "1">>, <<"3", "x">>,
             <<"x", "0">>}
        Suffixes ==
            {<<>>, <<"2">>, <<"2", "0", "2">>, <<"2", "0", "2", "5">>,
             <<"2", "0", "2", "5", ".">>, <<"2", "0", "2", "5", ".", "4">>,
             <<"2", "0", "2", "5", ".", "4", "5">>, <<"1", "9", "9", "9", ".", "4", "5">>,
             <<"2", "0", "2", "5", ".", "0", "0">>, <<"2", "0", "2", "5", ".", "6", "0">>,
             <<"2", "0", "2", "5", ".", "6", "1">>, <<"2", "0", "2", "5", ".", "x", "5">>,
             <<"2", "0", "2", "5", "x", "4", "5">>, <<"a", "0", "2", "5", ".", "4", "5">>,
             <<"2", "0", "2", "5", ".", "4", "5", "6">>,
             <<"2", "0", "2", "5", ".", "4", "5", "0", "0">>}
        ShortSpecs ==
            {SubSeq(t, 1, n) :
                t \in {<<"0", "1", "0", "2", "1", "5">>, <<"1", "2", "a", "4", "5", "x">>},
                n \in 0..6}
        SevenCharSpecs ==
            {m \o d \o h \o <<c>> :
                m \in {<<"0", "1">>, <<"a", "1">>}, d \in {<<"0", "2">>},
                h \in {<<"1", "5">>, <<"x", "5">>}, c \in {"3", "x"}}
    IN  ShortSpecs \cup SevenCharSpecs
        \cup {m \o d \o h \o n \o x :
                m \in MonthTexts, d \in DayTexts, h \in HourTexts, n \in MinuteTexts,
                x \in Suffixes}

InitDate ==
    /\ argument \in DateSpecs
    /\ zone \in Zones
    /\ pc = "check"
    /\ clock = MockClock /\ i = 0 /\ formattedDate = <<>> /\ tempDate = <<>>
    /\ DateAtRest /\ MainAtRest
    /\ rtc = 0 /\ privileged = FALSE /\ settime = <<>>
    /\ tmbuf = [gm |-> zero_tm, local |-> zero_tm, shared |-> TRUE]
    /\ clocks = <<>>

\* What no step of ParseDate changes.
dateFrame ==
    <<argument, clock, i, formattedDate, tempDate, arguments, isUtc, argi, exitStatus,
      cerr, sysVars>>

\* The argument is too short: "Invalid argument" is written, nullptr returned.
RejectShort ==
    /\ pc = "check"
    /\ too_short(argument)
    /\ cout' = cout \o InvalidArgumentText
    /\ pc' = "null"
    /\ UNCHANGED <<dateVars, dateFrame>>

AcceptLength ==
    /\ pc = "check"
    /\ ~too_short(argument)
    /\ pc' = "slice"
    /\ UNCHANGED <<dateVars, cout, dateFrame>>

SliceFields ==
    /\ pc = "slice"
    /\ fieldStr' = slice_fields(argument)
    /\ pc' = "stoi_month"
    /\ UNCHANGED <<fieldInt, localtime, convertedTime, cout, dateFrame>>

\* The stoi call of one field, in the order month, day, hour, minute,
\* year, second: the int is stored, or the exception leaves the function.
ConvertField ==
    /\ \E f \in {<<"stoi_month", "monthStr", "month", "stoi_day">>,
                 <<"stoi_day", "dayStr", "day", "stoi_hour">>,
                 <<"stoi_hour", "hourStr", "hour", "stoi_minute">>,
                 <<"stoi_minute", "minuteStr", "minute", "stoi_year">>,
                 <<"stoi_year", "yearStr", "year", "stoi_second">>,
                 <<"stoi_second", "secondStr", "second", "apply">>} :
        /\ pc = f[1]
        /\ LET r == stoi(fieldStr[f[2]]) IN
            IF r.threw THEN pc' = "threw" /\ UNCHANGED fieldInt
            ELSE pc' = f[4] /\ fieldInt' = [fieldInt EXCEPT ![f[3]] = r.value]
    /\ UNCHANGED <<fieldStr, localtime, convertedTime, cout, dateFrame>>

ApplyFields ==
    /\ pc = "apply"
    /\ localtime' = apply_fields(fieldInt)
    /\ pc' = "mktime"
    /\ UNCHANGED <<fieldStr, fieldInt, convertedTime, cout, dateFrame>>

\* time = mktime(&localtime); tv_sec = time; tv_nsec = 0.  mktime also
\* writes the carried-over fields back into the tm.
MakeTime ==
    /\ pc = "mktime"
    /\ convertedTime' = [tv_sec |-> mktime(localtime, zone), tv_nsec |-> 0]
    /\ localtime' = gmtime(mktime(localtime, zone) + zone.offset)
    /\ pc' = "returned"
    /\ UNCHANGED <<fieldStr, fieldInt, cout, dateFrame>>

NextDate ==
    \/ RejectShort \/ AcceptLength \/ SliceFields
    \/ ConvertField \/ ApplyFields \/ MakeTime

SpecDate == InitDate /\ [][NextDate]_vars

\* The call ends the way the function computes it.
ReturnsParseDate ==
    LET r == ParseDate(argument, zone) IN
    /\ pc = "returned" => r.outcome = "value" /\ r.value = convertedTime
    /\ pc = "null" => r.outcome = "null" /\ r.cout = cout /\ convertedTime = Null
    /\ pc = "threw" => r.outcome = "threw"

(***************************************************************************)
(* class Clock (clock.hpp, clock.cpp).  A Clock object is the record of    *)
(* its members.  Its member `time` is the pointer gmtime or localtime      *)
(* returned: it names the static struct tm the call wrote ("gm" or         *)
(* "local"), and tmbuf holds what these objects contain now.  The C        *)
(* library may use one object for both calls (tmbuf.shared) or one each.   *)
(***************************************************************************)

TM_YEAR_BASE == 1900

\* Clock::Clock(bool isUtc) at the instant t in the zone z: the object
\* constructed and the static storage after the call.  gmtime and
\* localtime store their result in static storage.
Clock_isUtc(utc, t, z, buf) ==
    LET tmv == IF utc THEN gmtime(t) ELSE gmtime(t + z.offset)
        which == IF utc THEN "gm" ELSE "local"
    IN  [object |->
            [now |-> t, time |-> which, day |-> tmv.tm_wday, month |-> tmv.tm_mon,
             timeZone |-> IF utc THEN <<"U", "T", "C">> ELSE z.abbrev],
         tmbuf |->
            IF buf.shared THEN [buf EXCEPT !.gm = tmv, !.local = tmv]
            ELSE [buf EXCEPT ![which] = tmv]]

\* getYear, getMonth, getDay, getHour, getMin, getSec, getDayOfTheWeek read
\* through the pointer `time`; getTimeZone returns the member timeZone.
getters(obj, buf) ==
    LET tmv == buf[obj.time]
    IN  [year |-> TM_YEAR_BASE + tmv.tm_year, month |-> tmv.tm_mon, day |-> tmv.tm_mday,
         hour |-> tmv.tm_hour, min |-> tmv.tm_min, sec |-> tmv.tm_sec,
         wday |-> tmv.tm_wday, tz |-> obj.timeZone]

\* clock_settime(CLOCK_REALTIME, tp): the results the system can give.  A
\* null tp is outside the function's contract: the call fails with EFAULT
\* or the library reads through it.
clock_settime(tp, priv) ==
    IF tp = Null THEN {"EFAULT", "SIGSEGV"}
    ELSE IF tp.tv_sec < 0 THEN {"EINVAL"}
    ELSE IF ~priv THEN {"EPERM"}
    ELSE {"0"}

\* Clock::setTime(newTime): the call is made, its result is dropped and
\* exit(EXIT_SUCCESS) follows.  The record of the call, the real-time clock
\* after it and how the process ends, for the result res.
setTime(newTime, res, now) ==
    [call |-> [tp |-> newTime, result |-> res],
     rtc |-> IF res = "0" THEN newTime.tv_sec ELSE now,
     exitStatus |-> IF res = "SIGSEGV" THEN "SIGSEGV" ELSE "EXIT_SUCCESS"]

(***************************************************************************)
(* main (main.cpp).                                                        *)
(*   pc = "getopt"   the getopt loop is scanning argv                      *)
(*   pc = "size"     the test of arguments.size() is next                  *)
(*   pc = "for"      the range-for is at arguments[argi]                   *)
(*   pc = "exited"   the process ended, exitStatus says how                *)
(* An uncaught exception ends the process through std::terminate, that is  *)
(* by SIGABRT.                                                             *)
(***************************************************************************)

\* string arg = "+%a %b %e %H:%M:%S %Z %Y"
DefaultFormat ==
    <<"+", "%", "a", " ", "%", "b", " ", "%", "e", " ", "%", "H", ":", "%", "M", ":",
      "%", "S", " ", "%", "Z", " ", "%", "Y">>

\* What getopt(argc, argv, "u") makes of one element of argv: the option
\* 'u', an unknown option ('?'), the end of the options ("--"), or an
\* operand, which GNU getopt steps over.
getopt(arg) ==
    IF arg = <<"-", "-">> THEN "end"
    ELSE IF Len(arg) < 2 \/ arg[1] # "-" THEN "operand"
    ELSE IF \A n \in 2..Len(arg) : arg[n] = "u" THEN "u"
    ELSE "?"

S_01021530 == <<"0", "1", "0", "2", "1", "5", "3", "0">>

S_010215302025_45 ==
    <<"0", "1", "0", "2", "1", "5", "3", "0", "2", "0", "2", "5", ".", "4", "5">>

\* The command lines followed (argv without argv[0]).
CommandLines ==
    LET DashU == <<"-", "u">>
        DashX == <<"-", "x">>
        S_0102 == <<"0", "1", "0", "2">>
        S_01a215302025_45 ==
            <<"0", "1", "a", "2", "1", "5", "3", "0", "2", "0", "2", "5", ".", "4", "5">>
        S_010x15302025_45 ==
            <<"0", "1", "0", "x", "1", "5", "3", "0", "2", "0", "2", "5", ".", "4", "5">>
    IN  {<<>>, <<DashU>>, <<T_ZeroPaddedHour>>, <<DashU, T_FullDay>>,
         <<T_LongTime, DashU>>, <<T_UnknownPlaceholder>>,
         <<T_ZeroPaddedHour, T_LongTime>>, <<<<>>>>, <<DashX>>, <<DashU, DashX>>,
         <<<<"-", "-">>, T_FullMonth>>,
         <<DashU, T_ZeroPaddedHour, T_LongTime, T_FullDay>>,
         <<S_010215302025_45>>, <<DashU, S_010215302025_45>>,
         <<S_010215302025_45, T_ZeroPaddedHour>>,
         <<T_ZeroPaddedHour, S_010215302025_45>>,
         <<S_01021530>>, <<S_0102>>, <<DashU, S_0102>>, <<S_01a215302025_45>>,
         <<S_010x15302025_45>>}

\* Instants the real-time clock may show: Thu 2 Jan 2025 15:30:45 UTC,
\* Fri 31 Dec 1999 23:59:59 UTC and Tue 29 Feb 2000 12:00:00 UTC.
Instants == {1735831845, 946684799, 951825600}

InitMain ==
    /\ arguments \in CommandLines
    /\ zone \in Zones /\ rtc \in Instants /\ privileged \in BOOLEAN
    /\ tmbuf \in {[gm |-> zero_tm, local |-> zero_tm, shared |-> b] : b \in BOOLEAN}
    /\ isUtc = FALSE /\ argi = 0 /\ exitStatus = "running"
    /\ cout = <<>> /\ cerr = <<>> /\ settime = <<>>
    /\ clocks =
        <<[now |-> 0, time |-> "nullptr", day |-> 1, month |-> 0, timeZone |-> <<>>]>>
    /\ clock = Null
    /\ formattedDate = <<>>
    /\ argument = <<>> /\ i = 0 /\ tempDate = <<>>
    /\ DateAtRest
    /\ pc = "getopt"

\* What no statement of main assigns.
mainFrame == <<arguments, zone, privileged, i, tempDate, fieldStr, fieldInt, localtime>>

\* The element of argv getopt is at.
AtOption(kind) ==
    /\ pc = "getopt"
    /\ IF argi < Len(arguments) THEN getopt(arguments[argi + 1]) = kind ELSE kind = "end"

\* case 'u': isUtc = true
GetoptU ==
    /\ AtOption("u")
    /\ isUtc' = TRUE
    /\ argi' = argi + 1
    /\ UNCHANGED <<argument, clock, formattedDate, pc, convertedTime, exitStatus, cout,
                   cerr, rtc, settime, tmbuf, clocks, mainFrame>>

\* An operand: getopt goes on to the next element.
GetoptOperand ==
    /\ AtOption("operand")
    /\ argi' = argi + 1
    /\ UNCHANGED <<argument, clock, formattedDate, pc, convertedTime, isUtc, exitStatus,
                   cout, cerr, rtc, settime, tmbuf, clocks, mainFrame>>

\* default: cerr << "Invalid option. ..."; return EXIT_FAILURE
GetoptInvalid ==
    /\ AtOption("?")
    /\ cerr' = cerr \o
        <<"I", "n", "v", "a", "l", "i", "d", " ", "o", "p", "t", "i", "o", "n", ".", " ",
          "T", "r", "y", " ", "-", "u", " ", "i", "f", " ", "y", "o", "u", " ", "w", "a",
          "n", "t", " ", "t", "o", " ", "s", "e", "t", " ", "t", "i", "m", "e", " ", "i",
          "n", " ", "U", "T", "C", ".">>
    /\ exitStatus' = "EXIT_FAILURE"
    /\ pc' = "exited"
    /\ UNCHANGED <<argument, clock, formattedDate, convertedTime, isUtc, argi, cout, rtc,
                   settime, tmbuf, clocks, mainFrame>>

\* getopt returned -1
GetoptEnd ==
    /\ AtOption("end")
    /\ argi' = 0
    /\ pc' = "size"
    /\ UNCHANGED <<argument, clock, formattedDate, convertedTime, isUtc, exitStatus, cout,
                   cerr, rtc, settime, tmbuf, clocks, mainFrame>>

\* arguments.size() > 3: cerr << "Usage ..."; return EXIT_FAILURE
Usage ==
    /\ pc = "size"
    /\ Len(arguments) > 3
    /\ cerr' = cerr \o
        <<"U", "s", "a", "g", "e", " ", ":", " ", ".", "/", "d", "a", "t", "e", " ", "[",
          "-", "u", "]", " ", "[", "+", "f", "o", "r", "m", "a", "t", "]">>
    /\ exitStatus' = "EXIT_FAILURE"
    /\ pc' = "exited"
    /\ UNCHANGED <<argument, clock, formattedDate, convertedTime, isUtc, argi, cout, rtc,
                   settime, tmbuf, clocks, mainFrame>>

\* clock = Clock(isUtc)
ConstructClock ==
    /\ pc = "size"
    /\ ~(Len(arguments) > 3)
    /\ LET c == Clock_isUtc(isUtc, rtc, zone, tmbuf)
       IN  /\ clocks' = <<c.object>>
           /\ tmbuf' = c.tmbuf
           /\ clock' = getters(c.object, c.tmbuf)
    /\ pc' = "for"
    /\ UNCHANGED <<argument, formattedDate, convertedTime, isUtc, argi, exitStatus, cout,
                   cerr, rtc, settime, mainFrame>>

\* if (argument == "-u") continue
ForContinue ==
    /\ pc = "for" /\ argi < Len(arguments)
    /\ arguments[argi + 1] = <<"-", "u">>
    /\ argument' = arguments[argi + 1]
    /\ argi' = argi + 1
    /\ UNCHANGED <<clock, formattedDate, pc, convertedTime, isUtc, exitStatus, cout, cerr,
                   rtc, settime, tmbuf, clocks, mainFrame>>

\* The range-for is at an argument other than "-u" with
\* isdigit(argument.front()) != 0, for which ParseDate ends in kind.
AtDate(kind) ==
    /\ pc = "for" /\ argi < Len(arguments)
    /\ arguments[argi + 1] # <<"-", "u">>
    /\ arguments[argi + 1] # <<>> /\ arguments[argi + 1][1] \in DecimalDigits
    /\ ParseDate(arguments[argi + 1], zone).outcome = kind

\* Clock::setTime(ParseDate(argument).get()) where ParseDate throws: no
\* handler is in main, the process is aborted.
SetDateThrows ==
    /\ AtDate("threw")
    /\ argument' = arguments[argi + 1]
    /\ exitStatus' = "SIGABRT"
    /\ pc' = "exited"
    /\ UNCHANGED <<clock, formattedDate, convertedTime, isUtc, argi, cout, cerr, rtc,
                   settime, tmbuf, clocks, mainFrame>>

\* Clock::setTime(ParseDate(argument).get()) where ParseDate returns
\* nullptr: setTime is called with the null pointer.
SetDateNull ==
    /\ AtDate("null")
    /\ argument' = arguments[argi + 1]
    /\ cout' = cout \o ParseDate(arguments[argi + 1], zone).cout
    /\ convertedTime' = Null
    /\ \E res \in clock_settime(Null, privileged) :
        LET s == setTime(Null, res, rtc)
        IN  /\ settime' = Append(settime, s.call)
            /\ rtc' = s.rtc
            /\ exitStatus' = s.exitStatus
    /\ pc' = "exited"
    /\ UNCHANGED <<clock, formattedDate, isUtc, argi, cerr, tmbuf, clocks, mainFrame>>

\* Clock::setTime(ParseDate(argument).get()) where ParseDate returns a
\* timespec.
SetDateValue ==
    /\ AtDate("value")
    /\ argument' = arguments[argi + 1]
    /\ LET ts == ParseDate(arguments[argi + 1], zone).value
       IN  /\ convertedTime' = ts
           /\ \E res \in clock_settime(ts, privileged) :
                LET s == setTime(ts, res, rtc)
                IN  /\ settime' = Append(settime, s.call)
                    /\ rtc' = s.rtc
                    /\ exitStatus' = s.exitStatus
    /\ pc' = "exited"
    /\ UNCHANGED <<clock, formattedDate, isUtc, argi, cout, cerr, tmbuf, clocks,
                   mainFrame>>

\* argument.front() of an empty string is outside the function's contract:
\* it reads the terminating '\0' (not a digit, handled by FormatArgument)
\* or, in a checked build of the library, aborts.
FrontOfEmpty ==
    /\ pc = "for" /\ argi < Len(arguments)
    /\ arguments[argi + 1] = <<>>
    /\ argument' = arguments[argi + 1]
    /\ exitStatus' = "SIGABRT"
    /\ pc' = "exited"
    /\ UNCHANGED <<clock, formattedDate, convertedTime, isUtc, argi, cout, cerr, rtc,
                   settime, tmbuf, clocks, mainFrame>>

\* formattedDate = Parser::ParseFormat(argument, clock)
FormatArgument ==
    /\ pc = "for" /\ argi < Len(arguments)
    /\ arguments[argi + 1] # <<"-", "u">>
    /\ ~(arguments[argi + 1] # <<>> /\ arguments[argi + 1][1] \in DecimalDigits)
    /\ argument' = arguments[argi + 1]
    /\ LET r == ParseFormat(arguments[argi + 1], getters(clocks[1], tmbuf))
       IN  IF r.threw
           THEN /\ exitStatus' = "SIGABRT" /\ pc' = "exited"
                /\ UNCHANGED <<formattedDate, argi>>
           ELSE /\ formattedDate' = r.value /\ argi' = argi + 1
                /\ UNCHANGED <<exitStatus, pc>>
    /\ UNCHANGED <<clock, convertedTime, isUtc, cout, cerr, rtc, settime, tmbuf, clocks,
                   mainFrame>>

\* No format was given: the default one is used; cout << formattedDate;
\* return EXIT_SUCCESS
PrintDefault ==
    /\ pc = "for" /\ ~(argi < Len(arguments))
    /\ formattedDate = <<>>
    /\ LET r == ParseFormat(DefaultFormat, getters(clocks[1], tmbuf))
       IN  IF r.threw
           THEN /\ exitStatus' = "SIGABRT"
                /\ UNCHANGED <<formattedDate, cout>>
           ELSE /\ formattedDate' = r.value
                /\ cout' = cout \o r.value
                /\ exitStatus' = "EXIT_SUCCESS"
    /\ pc' = "exited"
    /\ UNCHANGED <<argument, clock, convertedTime, isUtc, argi, cerr, rtc, settime, tmbuf,
                   clocks, mainFrame>>

\* cout << formattedDate; return EXIT_SUCCESS
PrintFormatted ==
    /\ pc = "for" /\ ~(argi < Len(arguments))
    /\ formattedDate # <<>>
    /\ cout' = cout \o formattedDate
    /\ exitStatus' = "EXIT_SUCCESS"
    /\ pc' = "exited"
    /\ UNCHANGED <<argument, clock, formattedDate, convertedTime, isUtc, argi, cerr, rtc,
                   settime, tmbuf, clocks, mainFrame>>

NextMain ==
    \/ GetoptU \/ GetoptOperand \/ GetoptInvalid \/ GetoptEnd
    \/ Usage \/ ConstructClock
    \/ ForContinue \/ SetDateThrows \/ SetDateNull \/ SetDateValue
    \/ FrontOfEmpty \/ FormatArgument
    \/ PrintDefault \/ PrintFormatted

SpecMain == InitMain /\ [][NextMain]_vars

\* main ends exactly once, and a started process has its Clock.
MainTypeOK ==
    /\ pc \in {"getopt", "size", "for", "exited"}
    /\ (pc = "exited") = (exitStatus # "running")
    /\ pc = "for" => clock = getters(clocks[1], tmbuf)
    /\ Len(settime) <= 1

(***************************************************************************)
(* The life of Clock objects in one process: Clock objects are             *)
(* constructed in either mode, time passes, date specs are decoded.        *)
(* clocks holds the objects constructed so far, clock what the accessors   *)
(* of the newest one return.                                               *)
(***************************************************************************)

\* The number of Clock objects followed.
MaxClocks == 2

InitClock ==
    /\ zone \in Zones /\ rtc \in Instants
    /\ tmbuf \in {[gm |-> zero_tm, local |-> zero_tm, shared |-> b] : b \in BOOLEAN}
    /\ clocks = <<>> /\ clock = Null
    /\ privileged = FALSE /\ settime = <<>>
    /\ argument = <<>> /\ i = 0 /\ formattedDate = <<>> /\ tempDate = <<>>
    /\ DateAtRest /\ MainAtRest
    /\ pc = "idle"

clockFrame ==
    <<i, formattedDate, tempDate, pc, fieldStr, fieldInt, localtime, mainVars, zone,
      privileged, settime>>

\* Clock(isUtc) is constructed.
NewClock ==
    /\ Len(clocks) < MaxClocks
    /\ \E utc \in BOOLEAN :
        LET c == Clock_isUtc(utc, rtc, zone, tmbuf)
        IN  /\ clocks' = Append(clocks, c.object)
            /\ tmbuf' = c.tmbuf
            /\ clock' = getters(c.object, c.tmbuf)
    /\ UNCHANGED <<argument, convertedTime, rtc, clockFrame>>

\* Time passes.
Tick ==
    /\ \E t \in Instants : t > rtc /\ rtc' = t
    /\ UNCHANGED <<argument, clock, convertedTime, tmbuf, clocks, clockFrame>>

\* Parser::ParseDate(spec) is called: mktime does not write the static
\* storage of gmtime and localtime.
DecodeDate ==
    /\ \E spec \in {S_010215302025_45, S_01021530, <<"0", "1", "0", "2">>} :
        /\ argument' = spec
        /\ convertedTime' = ParseDate(spec, zone).value
    /\ UNCHANGED <<clock, rtc, tmbuf, clocks, clockFrame>>

NextClock == NewClock \/ Tick \/ DecodeDate

SpecClock == InitClock /\ [][NextClock]_vars

\* The newest Clock shows the instant and the mode it was constructed for.
NewestClockFresh ==
    clocks # <<>> =>
        LET c == clocks[Len(clocks)]
        IN  /\ clock = getters(c, tmbuf)
            /\ c.day = clock.wday /\ c.month = clock.month
            /\ clock.year \in {1999, 2000, 2025}

(***************************************************************************)
(* Properties.  The texts they expect are written out independently of     *)
(* the operators above.                                                    *)
(***************************************************************************)

\* The numeral of one decimal digit.
Numeral(d) ==
    CASE d = 0 -> "0" [] d = 1 -> "1" [] d = 2 -> "2" [] d = 3 -> "3" [] d = 4 -> "4"
      [] d = 5 -> "5" [] d = 6 -> "6" [] d = 7 -> "7" [] d = 8 -> "8" [] d = 9 -> "9"

\* A value of 0..99 as exactly two decimal digits.
TwoDigits(v) == <<Numeral(v \div 10), Numeral(v % 10)>>

\* A year of 1000..9999 as its four decimal digits.
FourDigits(y) ==
    <<Numeral(y \div 1000), Numeral((y \div 100) % 10), Numeral((y \div 10) % 10),
      Numeral(y % 10)>>

\* A day of the month as two characters, the first a space below 10.
SpacePadded(v) == IF v < 10 THEN <<" ", Numeral(v)>> ELSE TwoDigits(v)

\* A returned text without its line terminator.
Body(r) == SubSeq(r.value, 1, Len(r.value) - 1)

\* The current iteration leaves the locals with n more characters of the
\* template consumed and the text s added to the output.
Renders(n, s) ==
    LET st == for_step(argument, clock, Locals) IN
    /\ ~st.threw
    /\ st.i = i + n
    /\ st.formattedDate = formattedDate \o s

\* The call has returned the text s for the template t.
Returns(t, s) == pc = "returned" /\ argument = t => formattedDate = s

RECURSIVE WithoutPlus(_)
\* A text with every '+' removed, the other characters in order.
WithoutPlus(t) ==
    IF t = <<>> THEN <<>>
    ELSE IF Head(t) = "+" THEN WithoutPlus(Tail(t))
    ELSE <<Head(t)>> \o WithoutPlus(Tail(t))

\* No '%' occurs in the text t.
NoPercent(t) == \A k \in 1..Len(t) : t[k] # "%"

\* Wherever the directive '%' c stands in a template that has no other
\* '%', the returned text is the text around it, less its '+', with s in
\* the place of the directive.
RendersAs(c, s) ==
    pc = "returned" =>
        \A k \in 1..(Len(argument) - 1) :
            LET pre == SubSeq(argument, 1, k - 1)
                post == SubSeq(argument, k + 2, Len(argument))
            IN  (argument[k] = "%" /\ argument[k + 1] = c
                 /\ NoPercent(pre) /\ NoPercent(post)) =>
                    formattedDate = WithoutPlus(pre) \o s \o WithoutPlus(post) \o <<"\n">>

\* The call on the time source clk has returned the text s for t.
ReturnsOn(clk, t, s) == (pc = "returned" /\ argument = t /\ clock = clk) => formattedDate = s

\* The fields of a CalendarTime, with a four-digit year.
ValidCalendarTime(clk) ==
    /\ clk.wday \in 0..6 /\ clk.month \in 0..11 /\ clk.day \in 1..31
    /\ clk.hour \in 0..23 /\ clk.min \in 0..59 /\ clk.sec \in 0..60
    /\ clk.year \in 1000..9999

\* The default format's text for a time source, the day written as d.
FullFormatText(clk, d) ==
    SubSeq(longDayNames[clk.wday + 1], 1, 3) \o <<" ">>
    \o SubSeq(longMonthNames[clk.month + 1], 1, 3) \o <<" ">>
    \o d \o <<" ">>
    \o TwoDigits(clk.hour) \o <<":">> \o TwoDigits(clk.min) \o <<":">>
    \o TwoDigits(clk.sec) \o <<" ">>
    \o clk.tz \o <<" ">>
    \o FourDigits(clk.year) \o <<"\n">>

ThuDec26 ==
    <<"T", "h", "u", " ", "D", "e", "c", " ", "2", "6", " ", "1", "9", ":", "4", "5",
      ":", "0", "0", " ", "M", "S", "K", " ", "1", "9", "9", "1", "\n">>

C2_UnknownDirectiveVerbatim ==
    /\ \A c \in UnknownChars : RendersAs(c, <<"%", c>>)
    /\ Returns(T_UnknownPlaceholder, T_UnknownPlaceholder \o <<"\n">>)

\* What does hold of an unknown directive: '%' c is rendered as '%' c for
\* every c without a case label other than '+'.
UnknownDirectiveExceptPlus ==
    /\ \A c \in UnknownChars \ {"+"} : RendersAs(c, <<"%", c>>)
    /\ Returns(T_UnknownPlaceholder, T_UnknownPlaceholder \o <<"\n">>)

\* The directives whose case holds only a TODO.
Unimplemented == {"I", "j", "p", "u", "w", "z", "r"}

\* C3: each unimplemented directive %I, %j, %p, %u, %w, %z and %r is a
\* no-op: it consumes exactly its two characters and contributes no
\* character to the output, so a template that consists of such a directive
\* alone renders "\n".
C3_UnimplementedNoOp ==
    \A c \in Unimplemented :
        /\ RendersAs(c, <<>>)
        /\ Returns(<<"%", c>>, <<"\n">>)

\* C4: for every time source, "%%" is rendered as a single literal '%'
\* without any clock field being read (the result is the same for every
\* time source, one with fields outside the name tables included), and the
\* character after "%%" is not taken as a directive: "+%%" renders "%\n"
\* and "+%%a" renders "%a\n".
C4_EscapedPercent ==
    /\ InSwitch("%") =>
        /\ Renders(2, <<"%">>)
        /\ \A clk \in BaseClocks \cup {MockClock} :
            for_step(argument, clk, Locals) = for_step(argument, clock, Locals)
    /\ RendersAs("%", <<"%">>)
    /\ Returns(<<"+", "%", "%">>, <<"%", "\n">>)
    /\ Returns(T_DoublePercent, <<"%", "a", "\n">>)

C4_Witness ==
    /\ pc = "returned" /\ argument = T_DoublePercent /\ clock = MockClock
    /\ formattedDate = <<"%", "a", "\n">>

\* C5: for every time source, "%T" renders what %H, ":", %M, ":", %S render
\* one after the other and "%R" what %H, ":", %M render, each sub-field
\* zero-padded to width 2 (for fields of 0..99).
C5_CombinedDirectives ==
    LET H == ParseFormat(<<"%", "H">>, clock)
        M == ParseFormat(<<"%", "M">>, clock)
        S == ParseFormat(<<"%", "S">>, clock)
    IN  /\ Returns(<<"%", "T">>,
                   Body(H) \o <<":">> \o Body(M) \o <<":">> \o Body(S) \o <<"\n">>)
        /\ Returns(<<"%", "R">>, Body(H) \o <<":">> \o Body(M) \o <<"\n">>)
        /\ (pc = "returned" /\ argument \in {<<"%", "T">>, <<"%", "R">>}
            /\ {clock.hour, clock.min, clock.sec} \subseteq 0..99) =>
                /\ ~H.threw /\ ~M.threw /\ ~S.threw
                /\ Body(H) = TwoDigits(clock.hour)
                /\ Body(M) = TwoDigits(clock.min)
                /\ Body(S) = TwoDigits(clock.sec)
        /\ ReturnsOn(C_LongTime, T_LongTime,
                     <<"1", "4", ":", "1", "5", ":", "1", "6", "\n">>)
        /\ ReturnsOn(C_LongTime, T_ShortTime, <<"1", "4", ":", "1", "5", "\n">>)

C5_Witness ==
    /\ pc = "returned" /\ argument = <<"%", "T">> /\ clock = NumericClock(70)
    /\ formattedDate = <<"0", "1", ":", "2", "3", ":", "4", "1", "\n">>

\* C6: for every template without a '%', the result is the template with
\* every '+' removed, at any position, the other characters kept in order,
\* followed by exactly one newline.
C6_NoPercentTemplate ==
    (pc = "returned" /\ NoPercent(argument)) =>
        formattedDate = WithoutPlus(argument) \o <<"\n">>

C6_Witness ==
    /\ pc = "returned" /\ argument = <<"x", "+", "a">>
    /\ formattedDate = <<"x", "a", "\n">>

\* C7: when the loop reaches a '%' that is the last character of the
\* template (so it is not the second character of a "%%" pair), the '%' is
\* copied to the output and nothing is read past the end of the template;
\* e.g. "Ends with percent%" renders "Ends with percent%\n".
C7_TrailingPercent ==
    /\ (InLoop /\ i = Len(argument) - 1 /\ at(argument, i).value = "%") =>
        Renders(1, <<"%">>)
    /\ Returns(T_TrailingPercent, T_TrailingPercent \o <<"\n">>)

C7_Witness ==
    /\ pc = "returned" /\ argument = T_TrailingPercent
    /\ formattedDate = T_TrailingPercent \o <<"\n">>

\* What the accessor behind a two-digit directive returns.
Accessor(c, clk) ==
    CASE c = "d" -> clk.day [] c = "m" -> clk.month [] c = "H" -> clk.hour
      [] c = "M" -> clk.min [] c = "S" -> clk.sec

\* C8: each of %d, %m, %H, %M and %S renders the value of its accessor
\* (getDay, getMonth, getHour, getMin, getSec) as exactly two decimal
\* digits, with a leading '0' below 10, for every value in 0..99; hour 3
\* renders "03" and a getMonth of 2 renders %m as "02".
C8_TwoDigitDirectives ==
    /\ \A c \in {"d", "m", "H", "M", "S"} :
        (InSwitch(c) /\ Accessor(c, clock) \in 0..99) =>
            /\ Renders(2, TwoDigits(Accessor(c, clock)))
            /\ RendersAs(c, TwoDigits(Accessor(c, clock)))
    /\ ReturnsOn(C_ZeroPaddedHour, T_ZeroPaddedHour, <<"0", "3", "\n">>)
    /\ ReturnsOn(C_ShortNumericDate, T_ShortNumericDate,
                 <<"0", "2", "/", "0", "2", "/", "9", "9", "\n">>)

C8_Witness ==
    /\ pc = "returned" /\ argument = <<"%", "M">> /\ clock.min = 7
    /\ formattedDate = <<"0", "7", "\n">>

\* C9: for every year in 1000..9999, %Y renders the full decimal year and
\* %y exactly the last two characters of it, which are the year modulo 100
\* in two digits; 1991 renders "1991" and "91".
C9_Year ==
    /\ (InSwitch("Y") /\ clock.year \in 1000..9999) =>
        Renders(2, FourDigits(clock.year))
    /\ (InSwitch("y") /\ clock.year \in 1000..9999) =>
        /\ Renders(2, SubSeq(FourDigits(clock.year), 3, 4))
        /\ Renders(2, TwoDigits(clock.year % 100))
    /\ clock.year = 1991 =>
        /\ Returns(<<"%", "Y">>, <<"1", "9", "9", "1", "\n">>)
        /\ Returns(<<"%", "y">>, <<"9", "1", "\n">>)

C9_Witness ==
    /\ pc = "returned" /\ argument = <<"%", "y">> /\ clock.year = 1991
    /\ formattedDate = <<"9", "1", "\n">>

\* C10: %e is the space-padded day of the month: for every day in 1..31 it
\* renders the day as exactly two characters, with a leading space below 10
\* (day 2 renders " 2"), where %d zero-pads.
C10_SpacePaddedDay ==
    clock.day \in 1..31 =>
        /\ RendersAs("e", SpacePadded(clock.day))
        /\ RendersAs("d", TwoDigits(clock.day))

\* C11: ParseFormat is total: for every template and every time source
\* with weekday in 0..6, month in 0..11 and a year that is any non-negative
\* integer (years below 10 included) it returns a string and no exception
\* leaves it.
C11_Total ==
    (clock.wday \in 0..6 /\ clock.month \in 0..11 /\ clock.year >= 0) => pc # "threw"

\* The number a decimal digit character stands for.
DigitOf(c) ==
    CASE c = "0" -> 0 [] c = "1" -> 1 [] c = "2" -> 2 [] c = "3" -> 3 [] c = "4" -> 4
      [] c = "5" -> 5 [] c = "6" -> 6 [] c = "7" -> 7 [] c = "8" -> 8 [] c = "9" -> 9

\* The number a text of two or of four decimal digits stands for (-1 for
\* any other text).
NumberOf(t) ==
    IF Len(t) \notin {2, 4}
       \/ \E n \in 1..Len(t) :
            t[n] \notin {"0", "1", "2", "3", "4", "5", "6", "7", "8", "9"}
    THEN -1
    ELSE IF Len(t) = 2 THEN 10 * DigitOf(t[1]) + DigitOf(t[2])
    ELSE 1000 * DigitOf(t[1]) + 100 * DigitOf(t[2]) + 10 * DigitOf(t[3]) + DigitOf(t[4])

\* The text of the argument at the 0-based positions from..to.
Field(from, to) == SubSeq(argument, from + 1, to + 1)

\* C12: decoding the 8-character all-digit spec "01021530" (MMDDhhmm, no
\* year, no seconds) completes normally: no exception is raised for the
\* absent year and seconds, and the value has month index 0, day 2, hour
\* 15, minute 30 and the year at its unadjusted default.
C12_BasicSpecDecodes ==
    argument = S_01021530 =>
        /\ pc \notin {"threw", "null"}
        /\ pc = "mktime" =>
            /\ localtime.tm_mon = 0 /\ localtime.tm_mday = 2
            /\ localtime.tm_hour = 15 /\ localtime.tm_min = 30
            /\ localtime.tm_year = 0 - 1900

\* A 15-character spec MMDDhhmmYYYY.SS of digits, each field within 1..max.
ValidFullSpec ==
    /\ Len(argument) = 15
    /\ argument[13] = "."
    /\ NumberOf(Field(0, 1)) \in 1..12
    /\ NumberOf(Field(2, 3)) \in 1..31
    /\ NumberOf(Field(4, 5)) \in 1..24
    /\ NumberOf(Field(6, 7)) \in 1..60
    /\ NumberOf(Field(8, 11)) \in 1000..9999
    /\ NumberOf(Field(13, 14)) \in 1..60

\* C13: a 15-character spec MMDDhhmmYYYY.SS whose fields are all digits,
\* each within 1..its maximum, is decoded to month index MM-1, day DD, hour
\* hh, minute mm, year YYYY (stored as YYYY-1900) and second SS, and the
\* timespec returned has the nanosecond part 0; "010215302025.45" gives
\* the instant of 2 January 2025 15:30:45 local time.
C13_FullSpecDecodes ==
    /\ ValidFullSpec =>
        /\ pc \notin {"threw", "null"}
        /\ pc = "mktime" =>
            localtime =
                [zero_tm EXCEPT
                    !.tm_mon = NumberOf(Field(0, 1)) - 1,
                    !.tm_mday = NumberOf(Field(2, 3)),
                    !.tm_hour = NumberOf(Field(4, 5)),
                    !.tm_min = NumberOf(Field(6, 7)),
                    !.tm_year = NumberOf(Field(8, 11)) - 1900,
                    !.tm_sec = NumberOf(Field(13, 14))]
        /\ pc = "returned" => convertedTime.tv_nsec = 0
    /\ (pc = "returned" /\ argument = S_010215302025_45) =>
        /\ convertedTime = [tv_sec |-> 1735831845 - zone.offset, tv_nsec |-> 0]
        /\ localtime.tm_mday = 2 /\ localtime.tm_year = 2025 - 1900
        /\ localtime.tm_sec = 45 /\ localtime.tm_mon = 0
        /\ localtime.tm_hour = 15 /\ localtime.tm_min = 30

C13_Witness ==
    /\ pc = "returned" /\ argument = S_010215302025_45 /\ zone = UTC0
    /\ convertedTime = [tv_sec |-> 1735831845, tv_nsec |-> 0]

\* C14: for every spec shorter than 7 characters ParseDate reports invalid
\* input (writes "Invalid argument" and returns nullptr) before any field
\* is sliced or converted, and no exception is raised.
C14_ShortSpecRejected ==
    Len(argument) < 7 =>
        /\ pc \in {"check", "null"}
        /\ fieldStr = NoStrings /\ fieldInt = NoInts /\ localtime = zero_tm
        /\ convertedTime = Null
        /\ pc = "null" => cout = InvalidArgumentText

C14_Witness ==
    /\ pc = "null" /\ Len(argument) = 5 /\ cout = InvalidArgumentText
    /\ convertedTime = Null

\* The tm component a two-digit field text leaves: the number (less off)
\* when it lies in 1..max, the zero-initialised value otherwise.
Applied(text, max, off) ==
    IF NumberOf(text) \in 1..max THEN NumberOf(text) - off ELSE 0

\* C16: each decoded field is written to the result only when it lies in
\* 1..max (month 1..12, day 1..31, hour 1..24, minute 1..60, second 1..60);
\* a field of 0 or above its maximum leaves that component at its
\* zero-initialised value and raises no error, whatever the other fields.
C16_RangePolicy ==
    /\ pc = "mktime" =>
        /\ NumberOf(Field(0, 1)) >= 0 => localtime.tm_mon = Applied(Field(0, 1), 12, 1)
        /\ NumberOf(Field(2, 3)) >= 0 => localtime.tm_mday = Applied(Field(2, 3), 31, 0)
        /\ NumberOf(Field(4, 5)) >= 0 => localtime.tm_hour = Applied(Field(4, 5), 24, 0)
        /\ NumberOf(Field(6, 7)) >= 0 => localtime.tm_min = Applied(Field(6, 7), 60, 0)
        /\ NumberOf(Field(13, 14)) >= 0 =>
            localtime.tm_sec = Applied(Field(13, 14), 60, 0)
    /\ pc = "apply" =>
        /\ ENABLED ApplyFields
        /\ fieldInt.month = 0 \/ fieldInt.month > 12 => apply_fields(fieldInt).tm_mon = 0
        /\ fieldInt.day = 0 \/ fieldInt.day > 31 => apply_fields(fieldInt).tm_mday = 0
        /\ fieldInt.hour = 0 \/ fieldInt.hour > 24 => apply_fields(fieldInt).tm_hour = 0
        /\ fieldInt.minute = 0 \/ fieldInt.minute > 60 =>
            apply_fields(fieldInt).tm_min = 0
        /\ fieldInt.second = 0 \/ fieldInt.second > 60 =>
            apply_fields(fieldInt).tm_sec = 0

C16_Witness ==
    /\ pc = "mktime"
    /\ argument =
        <<"1", "3", "0", "0", "2", "4", "6", "0", "2", "0", "2", "5", ".", "6", "1">>
    /\ localtime.tm_mon = 0 /\ localtime.tm_mday = 0 /\ localtime.tm_hour = 24
    /\ localtime.tm_min = 60 /\ localtime.tm_sec = 0

\* Every field of the spec that its length holds is made of digits within
\* 1..max (a seven-character spec has a one-digit minute).
ValidDigits ==
    /\ NumberOf(Field(0, 1)) \in 1..12
    /\ NumberOf(Field(2, 3)) \in 1..31
    /\ NumberOf(Field(4, 5)) \in 1..24
    /\ Len(argument) = 7 => argument[7] \in DecimalDigits
    /\ Len(argument) > 7 => NumberOf(Field(6, 7)) \in 1..60
    /\ \A n \in 9..Len(argument) : n # 13 => argument[n] \in DecimalDigits
    /\ Len(argument) >= 13 => argument[13] = "."

\* C17: the decoder accepts exactly the spec lengths 7, 11 and 15: a spec
\* of any other length is rejected (16 or more characters with '.' at
\* offset 12, or 9 characters, say), and a spec of an accepted length with
\* valid digits is decoded to a value.
C17_AcceptedLengths ==
    /\ Len(argument) \notin {7, 11, 15} => pc \notin {"mktime", "returned"}
    /\ (Len(argument) \in {7, 11, 15} /\ ValidDigits) => pc \notin {"threw", "null"}

\* Some character of the month, day, hour or minute field (offsets 0..7,
\* as far as the spec reaches) is not a decimal digit.
NonDigitInRequiredField ==
    \E n \in 1..8 : n <= Len(argument) /\ argument[n] \notin DecimalDigits

\* C15: for every spec of at least 7 characters with a non-digit at either
\* position of the month, day, hour or minute field, ParseDate returns the
\* invalid-spec outcome to its caller: no exception leaves it (main has no
\* handler, so one would end the process abnormally) and no decoded value
\* is returned.
C15_NonDigitRejected ==
    (Len(argument) >= 7 /\ NonDigitInRequiredField) => pc \notin {"threw", "returned"}

\* The run ended at the date-set argument arg (an argument that starts with
\* a digit).
EndedAtDateSet(arg) ==
    /\ pc = "exited" /\ Len(arguments) <= 3 /\ argi < Len(arguments)
    /\ arguments[argi + 1] = arg
    /\ arg # <<>> /\ arg[1] \in DecimalDigits

\* A date-set argument that is too short or not numeric.
InvalidDateSet(arg) ==
    \/ Len(arg) < 7
    \/ \E n \in 1..Len(arg) : n # 13 /\ arg[n] \notin DecimalDigits

\* C18: when the date-set argument is invalid (too short or not numeric)
\* the program ends with a failure status (ending by a signal counts as
\* one) and clock_settime is not called in that run.
C18_InvalidDateSetFails ==
    \A n \in 1..Len(arguments) :
        (EndedAtDateSet(arguments[n]) /\ InvalidDateSet(arguments[n])) =>
            exitStatus # "EXIT_SUCCESS" /\ settime = <<>>

\* C19: when clock_settime is refused for lack of privilege the failure is
\* reported and the process ends with a failure status; after a date-set
\* call the process exits with success only when the clock was set.
C19_PermissionFailureSurfaces ==
    (pc = "exited" /\ settime # <<>> /\ settime[1].tp # Null) =>
        /\ settime[1].result = "EPERM" => exitStatus = "EXIT_FAILURE" /\ cerr # <<>>
        /\ exitStatus = "EXIT_SUCCESS" =>
            settime[1].result = "0" /\ rtc = settime[1].tp.tv_sec

\* C20: a constructed Clock is immutable: what getYear, getMonth, getDay,
\* getHour, getMin, getSec, getDayOfTheWeek and getTimeZone return for it
\* is not changed by any later step, be it the construction of another
\* Clock in either mode, the passing of time or the decoding of a date spec.
C20_ClockImmutable ==
    [][\A n \in 1..Len(clocks) : getters(clocks[n], tmbuf)' = getters(clocks[n], tmbuf)]_vars

====
